---- MODULE Spec2Model ----
(***************************************************************************)
(* Push-to-talk dictation (src/dictation.py).                              *)
(*                                                                         *)
(* The model follows the queue-based architecture of the program: the key  *)
(* event tap (key_event_callback) puts COMMAND_DOWN / COMMAND_UP on         *)
(* command_queue, transcription threads (do_transcription) put CHUNK_DONE   *)
(* on it, and the state manager thread (state_manager) takes one message   *)
(* at a time.  type_text is the only place where the state manager can be  *)
(* observed in the middle of a message: while the osascript subprocess     *)
(* runs, typing_in_progress is set and key events are still delivered.     *)
(***************************************************************************)
EXTENDS Integers, Sequences, FiniteSets, TLC

\* ---------------------------------------------------------------- bounds
\* Physical presses of the Right Command key in a run.
MaxPresses == 2
\* Frames audio_callback appends to one recording.
MaxFrames == 1
\* Handles opened, and calls made, when close_stream_with_timeout is driven
\* directly (SpecClose).
MaxStreams == 3
MaxCloseCalls == 12
\* COMMAND_DOWN messages put on the queue when the state manager is driven
\* directly (SpecCommands).
MaxCommands == 4
\* Failures of the audio backend, osascript and the recognizer in a run.
MaxFaults == 1
\* Chunks handed to the flush loop, and calls of type_text it makes, when
\* type_text is driven directly (SpecTypeText).
MaxCalls == 2
\* Recordings handed to do_transcription when the dispatcher is driven
\* directly (SpecPool).
MaxChunks == 3
\* Longest recording, in tenths of a second, when transcribe_recorded_audio
\* is applied to one recording (SpecTranscribe).
MaxAudioTenths == 700
\* Processes launched from this program that compete for the single-instance
\* lock (SpecLock).
MaxProcesses == 3

\* ------------------------------------------------------ program constants
MAX_TRANSCRIPTION_RETRIES == 2
MAX_ABANDONED_STREAMS == 10
LEAK_WARNING_COUNT == 5
MAX_CREATION_FAILURES == 3
max_wait_iterations == 20
max_workers == 2
SAMPLE_RATE == 16000
TRANSCRIPTION_TIMEOUT == 120
TRANSCRIPT_LOG_THRESHOLD == 30

None == -1
Texts == {"", "hi"}

VARIABLES
    \* hardware and the event tap
    keyDown,                \* Right Command is physically held
    right_command_pressed,
    tapReturn,              \* what key_event_callback did with the last key event: "consumed"
                            \* (return None) or "passed" (return event); "none" before the first
    typing_in_progress,
    command_queue,
    \* state_manager locals
    smPc,                   \* "get": blocked in command_queue.get(); "polled": in type_text, the poll
                            \* loop saw the key released; "typing": in type_text, osascript running;
                            \* "blocked": in a wait that never returns; "polling": in the poll
                            \* loop of type_text; "settling": in COMMAND_UP, capture disabled,
                            \* in the settle sleep; "snapshotted": in COMMAND_UP, audio grabbed
    is_recording,
    current_chunk_id,
    next_chunk_to_record,
    next_chunk_to_type,
    pending_chunks,
    audio_stream,
    \* capture globals
    recording_buffer,
    audio_capture_enabled,
    streams,                \* stream handle -> "running" | "closed" | "hung"
    \* health counters and process lifecycle
    abandoned_streams,
    creation_failures,
    notifications,          \* kind -> number of rumps.notification calls
    lockHeld,
    quitRequested,
    \* transcription threads
    workers,                \* chunk id -> [frames, attempt]
    \* history
    presses,
    chunkLog,               \* chunk id -> what happened to the dispatched chunk
    dispatched,             \* chunk ids handed to do_transcription, in order
    typeLog,                \* calls of type_text with non-empty text, in order
    flushed,                \* chunk ids deleted from pending_chunks, in order
    queuedWhileRecording,   \* chunk ids whose CHUNK_DONE was stored while is_recording
    doneOrder,              \* chunk ids in the order their CHUNK_DONE was received
    leakLog,                \* stream handle -> number of times it was counted as abandoned
    closeCalls,
    failStreak,             \* stream creations that failed since the last one that succeeded
    \* positions inside handlers, moved only when a handler is taken step by step
    polls,                  \* type_text: polls of the current call that saw the key held
    inFlight,               \* streams whose audio_callback has seen audio_capture_enabled set
                            \* and has not yet taken recording_lock
    chunk_id,               \* COMMAND_UP: the local chunk_id
    recorded_audio,         \* chunk id -> the list do_transcription was given: its frames, and
                            \* whether recording_buffer still refers to the same list
    pool_running,           \* transcription_executor: calls [cid, attempt] a worker is executing
    pool_queue,             \* transcription_executor: calls submitted and not yet started
    waiting,                \* chunk id -> the call whose future.result() its thread is in
    audio_len,              \* transcribe_recorded_audio: len(audio), in samples
    timeout_seconds,        \* transcribe_recorded_audio: the deadline, None until computed
    transcript_log,         \* entries appended to Dictation_Transcripts.log
    \* the single-instance lock, as the processes launched from this program see it
    lock_file,              \* the file the path LOCK_FILE names, None if there is none
    flock_owner,            \* file -> the process whose handle holds the flock, None if free
    lock_file_handle,       \* process -> the file its handle is open on, None if not open
    procPc,                 \* process -> "start" | "opened" | "running" | "unlocked" |
                            \* "closed" | "exited"
    envFaults,              \* failures the environment has produced so far
    fault                   \* how the last step failed, "none" otherwise

vars == <<keyDown, right_command_pressed, tapReturn, typing_in_progress, command_queue,
          smPc, is_recording, current_chunk_id, next_chunk_to_record,
          next_chunk_to_type, pending_chunks, audio_stream, recording_buffer,
          audio_capture_enabled, streams, abandoned_streams, creation_failures,
          notifications, lockHeld, quitRequested, workers, presses, chunkLog,
          dispatched, typeLog, flushed, queuedWhileRecording, doneOrder, leakLog,
          closeCalls, failStreak, polls, inFlight, chunk_id, recorded_audio,
          pool_running, pool_queue, waiting, audio_len, timeout_seconds,
          transcript_log, lock_file, flock_owner, lock_file_handle, procPc,
          envFaults, fault>>

keyVars == <<keyDown, right_command_pressed, tapReturn, presses>>
smVars == <<smPc, is_recording, current_chunk_id, next_chunk_to_record,
            next_chunk_to_type, pending_chunks, audio_stream>>
captureVars == <<recording_buffer, audio_capture_enabled>>
creationVars == <<creation_failures, failStreak>>
healthVars == <<abandoned_streams, notifications, lockHeld, quitRequested, leakLog,
                closeCalls, streams>>
flushLogVars == <<typeLog, flushed, queuedWhileRecording, doneOrder>>
captureStepVars == <<inFlight, chunk_id, recorded_audio>>
poolVars == <<pool_running, pool_queue, waiting>>
transcribeVars == <<audio_len, timeout_seconds, transcript_log>>
lockVars == <<lock_file, flock_owner, lock_file_handle, procPc>>
stepVars == <<polls, captureStepVars, poolVars, transcribeVars, lockVars>>

\* ------------------------------------------------------------- helpers
Put(f, k, v) == [x \in (DOMAIN f) \cup {k} |-> IF x = k THEN v ELSE f[x]]
Del(f, k) == [x \in (DOMAIN f) \ {k} |-> f[x]]
EmptyMap == [x \in {} |-> 0]

NoBuffer == [none |-> TRUE, frames |-> <<>>]
EmptyBuffer == [none |-> FALSE, frames |-> <<>>]

DownMsg == [type |-> "COMMAND_DOWN", id |-> None, text |-> ""]
UpMsg == [type |-> "COMMAND_UP", id |-> None, text |-> ""]
ChunkDone(cid, text) == [type |-> "CHUNK_DONE", id |-> cid, text |-> text]

NoNotifications ==
    [leak_warning |-> 0, leak_restart |-> 0, create_restart |-> 0, audio_error |-> 0]

\* The environment (audio backend, osascript, recognizer) fails at most
\* MaxFaults times in a run; n is the number of failures a step asks for.
Fails(n) ==
    /\ envFaults + n <= MaxFaults
    /\ envFaults' = envFaults + n

\* ------------------------------------------------ Leak / health monitor
Health ==
    [abandoned |-> abandoned_streams, notes |-> notifications, lock |-> lockHeld,
     quit |-> quitRequested, leaks |-> leakLog, streams |-> streams,
     calls |-> closeCalls]

SetHealth(h) ==
    /\ abandoned_streams' = h.abandoned
    /\ notifications' = h.notes
    /\ lockHeld' = h.lock
    /\ quitRequested' = h.quit
    /\ leakLog' = h.leaks
    /\ streams' = h.streams
    /\ closeCalls' = h.calls

\* release_single_instance_lock followed by rumps.quit_application
ForcedQuit(h) == [h EXCEPT !.lock = FALSE, !.quit = TRUE]

\* What stream.close() on the background thread can do within the wait:
\* return (or raise, which try_close swallows), or block past the timeout.
CloseOutcomes(state) == IF state = "closed" THEN {"closed"} ELSE {"closed", "hung"}

\* Faulty variant: the warning is raised at every count from the warning
\* count on.
LeakWarningDueFrom(n) == n >= LEAK_WARNING_COUNT

\* Whether a close timeout that brought the leak count to n raises the
\* resource warning.
LeakWarningDue(n) == n = LEAK_WARNING_COUNT

\* Faulty variant: the restart threshold is compared with > instead of >=.
ForceRestartDueLate(n) == n > MAX_ABANDONED_STREAMS

ForceRestartDue(n) == n >= MAX_ABANDONED_STREAMS

\* Faulty variant: a close that timed out is not counted as a leak.
close_stream_uncounted(h, stream, outcome) ==
    [h EXCEPT !.streams[stream] = outcome, !.calls = @ + 1]

\* close_stream_with_timeout(stream): the health state after the call; the
\* call returns TRUE exactly when outcome = "closed".
close_stream_with_timeout(h, stream, outcome) ==
    IF outcome = "closed"
    THEN [h EXCEPT !.streams[stream] = "closed", !.calls = @ + 1]
    ELSE LET n == h.abandoned + 1
             h1 == [h EXCEPT !.abandoned = n,
                             !.streams[stream] = "hung",
                             !.leaks[stream] = @ + 1,
                             !.calls = @ + 1]
             h2 == IF LeakWarningDue(n)
                   THEN [h1 EXCEPT !.notes.leak_warning = @ + 1]
                   ELSE h1
         IN IF ForceRestartDue(n)
            THEN ForcedQuit([h2 EXCEPT !.notes.leak_restart = @ + 1])
            ELSE h2

\* --------------------------------------------------------- Output injector
\* type_text up to the osascript call: what the poll loop decides.
TypeTextPoll(text, held) ==
    IF text = "" THEN "noop"
    ELSE IF held THEN "deferred"
    ELSE "inject"

Min(S) == CHOOSE x \in S : \A y \in S : x <= y

\* Faulty variant: the loop takes whichever pending chunk has the lowest id instead of
\* waiting for next_chunk_to_type.
RECURSIVE try_type_any_pending_chunk(_, _, _, _)
try_type_any_pending_chunk(p, n, held, done) ==
    IF DOMAIN p = {} THEN [p |-> p, n |-> n, res |-> "done", flushed |-> done]
    ELSE LET m == Min(DOMAIN p)
         IN IF p[m] = ""
            THEN try_type_any_pending_chunk(Del(p, m), m + 1, held, Append(done, m))
            ELSE [p |-> p, n |-> m, res |-> TypeTextPoll(p[m], held), flushed |-> done]

\* Faulty variant: after a deferral the loop goes on to the next chunk id
\* instead of breaking.
RECURSIVE try_type_past_deferred(_, _, _, _)
try_type_past_deferred(p, n, held, done) ==
    IF n \notin DOMAIN p THEN [p |-> p, n |-> n, res |-> "done", flushed |-> done]
    ELSE IF p[n] = ""
         THEN try_type_past_deferred(Del(p, n), n + 1, held, Append(done, n))
         ELSE IF TypeTextPoll(p[n], held) = "deferred"
              THEN try_type_past_deferred(p, n + 1, held, done)
              ELSE [p |-> p, n |-> n, res |-> TypeTextPoll(p[n], held), flushed |-> done]

\* try_type_pending_chunks, from the top of its while loop to the first call
\* of type_text that does not return at once.
RECURSIVE try_type_pending_chunks(_, _, _, _)
try_type_pending_chunks(p, n, held, done) ==
    IF n \notin DOMAIN p THEN [p |-> p, n |-> n, res |-> "done", flushed |-> done]
    ELSE IF p[n] = ""
         THEN try_type_pending_chunks(Del(p, n), n + 1, held, Append(done, n))
         ELSE [p |-> p, n |-> n, res |-> TypeTextPoll(p[n], held), flushed |-> done]

\* The state manager runs the flush loop on (p, n); done is the flush history
\* so far.  The effect on the state manager and on the injector.
Flush(p, n, done) ==
    LET r == try_type_pending_chunks(p, n, keyDown, done)
    IN /\ pending_chunks' = r.p
       /\ next_chunk_to_type' = r.n
       /\ flushed' = r.flushed
       /\ smPc' = IF r.res = "inject" THEN "polled" ELSE "get"
       /\ typing_in_progress' = FALSE

\* The typeLog entry of a call of type_text that returned at the poll loop.
DeferralLogged(log, p, n, done) ==
    LET r == try_type_pending_chunks(p, n, keyDown, done)
    IN IF r.res = "deferred"
       THEN Append(log, [id |-> r.n, rec |-> is_recording, res |-> "deferred",
                         before |-> Len(r.flushed)])
       ELSE log

\* ------------------------------------------------------------ Key event tap
\* key_event_callback on a kCGEventFlagsChanged event of the Right Command key.
KeyPress ==
    /\ ~quitRequested
    /\ ~keyDown
    /\ presses < MaxPresses
    /\ keyDown' = TRUE
    /\ presses' = presses + 1
    /\ IF typing_in_progress
       THEN /\ tapReturn' = "consumed"
            /\ UNCHANGED <<right_command_pressed, command_queue>>
       ELSE IF ~right_command_pressed
            THEN /\ right_command_pressed' = TRUE
                 /\ command_queue' = Append(command_queue, DownMsg)
                 /\ tapReturn' = "consumed"
            ELSE /\ tapReturn' = "passed"
                 /\ UNCHANGED <<right_command_pressed, command_queue>>
    /\ fault' = "none"
    /\ UNCHANGED <<envFaults, typing_in_progress, smVars, captureVars, healthVars,
                   creationVars, stepVars, workers, chunkLog, dispatched, flushLogVars>>

KeyRelease ==
    /\ ~quitRequested
    /\ keyDown
    /\ keyDown' = FALSE
    /\ IF typing_in_progress
       THEN /\ right_command_pressed' = FALSE
            /\ tapReturn' = IF right_command_pressed THEN "consumed" ELSE "passed"
            /\ UNCHANGED command_queue
       ELSE IF right_command_pressed
            THEN /\ right_command_pressed' = FALSE
                 /\ command_queue' = Append(command_queue, UpMsg)
                 /\ tapReturn' = "consumed"
            ELSE /\ tapReturn' = "passed"
                 /\ UNCHANGED <<right_command_pressed, command_queue>>
    /\ fault' = "none"
    /\ UNCHANGED <<envFaults, presses, typing_in_progress, smVars, captureVars, healthVars,
                   creationVars, stepVars, workers, chunkLog, dispatched, flushLogVars>>

\* ------------------------------------------------------------ Capture buffer
\* audio_callback on the thread of running stream s.
AudioCallback(s) ==
    /\ ~quitRequested
    /\ streams[s] = "running"
    /\ audio_capture_enabled
    /\ ~recording_buffer.none
    /\ Len(recording_buffer.frames) < MaxFrames
    /\ recording_buffer' = [recording_buffer EXCEPT !.frames = Append(@, s)]
    /\ fault' = "none"
    /\ UNCHANGED <<envFaults, keyVars, typing_in_progress, command_queue, smVars,
                   audio_capture_enabled, healthVars, creationVars, stepVars, workers,
                   chunkLog, dispatched, flushLogVars>>

\* ------------------------------------------------------------ State manager
Receives(msgType) ==
    /\ ~quitRequested
    /\ smPc = "get"
    /\ command_queue # <<>>
    /\ Head(command_queue).type = msgType

\* What the StreamCreate thread can do: finish within the wait ("ok", or
\* "error" when it raised), never finish ("timeout"), finish after the wait
\* timed out but before stream_ref is looked at ("timeout_orphan"), or finish
\* after stream_ref was looked at ("timeout_late").
CreateOutcomes == {"ok", "error", "timeout", "timeout_orphan", "timeout_late"}

\* Faulty variant: the state manager joins the background thread without a
\* timeout, so a creation or close that hangs holds it for ever.
AfterJoin(hung) == IF hung THEN "blocked" ELSE "get"

\* Where the state manager is after create_done.wait(timeout=2.0) or
\* close_done.wait(timeout=timeout): the wait returns whether or not the
\* background thread has finished (hung), and the handler runs to its end.
AfterWait(hung) == "get"

NewStream == Cardinality(DOMAIN streams)

\* The creation-failure threshold of the timeout branch.
CreationFailed(h, failures) ==
    IF failures >= MAX_CREATION_FAILURES
    THEN ForcedQuit([h EXCEPT !.notes.create_restart = @ + 1])
    ELSE [h EXCEPT !.notes.audio_error = @ + 1]

\* Faulty variant: a successful creation takes one failure off the count.
FailuresAfterSuccessLess(failures) == IF failures > 0 THEN failures - 1 ELSE 0

\* `creation_failures = 0  # Reset counter on success`
FailuresAfterSuccess(failures) == 0

\* Faulty variant: the id counter is not advanced when an id is allocated.
NextChunkToRecordSame(n) == n

\* The id counter after COMMAND_DOWN took id n for the new chunk.
NextChunkToRecord(n) == n + 1

\* Faulty variant: the handler starts a recording on every COMMAND_DOWN.
IgnoresCommandDownNever(recording) == FALSE

\* Whether the COMMAND_DOWN handler does nothing: `if not is_recording`.
IgnoresCommandDown(recording) == recording

\* COMMAND_DOWN.  Ignored while a recording is running; otherwise allocate
\* the chunk id, then create and start a fresh stream.
CommandDown(outcome, closeOutcome) ==
    /\ Receives("COMMAND_DOWN")
    /\ command_queue' = Tail(command_queue)
    /\ Fails((IF outcome = "ok" THEN 0 ELSE 1) + (IF closeOutcome = "hung" THEN 1 ELSE 0))
    /\ IF IgnoresCommandDown(is_recording)
       THEN /\ outcome = "ok" /\ closeOutcome = "closed"
            /\ fault' = "none"
            /\ UNCHANGED <<is_recording, current_chunk_id, next_chunk_to_record,
                           audio_stream, captureVars, healthVars, creationVars>>
       ELSE /\ current_chunk_id' = next_chunk_to_record
            /\ next_chunk_to_record' = NextChunkToRecord(next_chunk_to_record)
            /\ recording_buffer' = EmptyBuffer
            /\ CASE outcome = "ok" ->
                      /\ closeOutcome = "closed"
                      /\ is_recording' = TRUE
                      /\ audio_capture_enabled' = TRUE
                      /\ audio_stream' = NewStream
                      /\ creation_failures' = FailuresAfterSuccess(creation_failures)
                      /\ failStreak' = 0
                      /\ SetHealth([Health EXCEPT !.streams = Put(@, NewStream, "running"),
                                                  !.leaks = Put(@, NewStream, 0)])
                      /\ fault' = "none"
                 [] outcome = "error" ->
                      /\ closeOutcome = "closed"
                      /\ is_recording' = FALSE
                      /\ audio_capture_enabled' = FALSE
                      /\ audio_stream' = None
                      /\ creation_failures' = creation_failures
                      /\ failStreak' = failStreak + 1
                      /\ SetHealth(Health)
                      /\ fault' = "create_error"
                 [] outcome = "timeout" ->
                      /\ closeOutcome = "closed"
                      /\ is_recording' = FALSE
                      /\ audio_capture_enabled' = FALSE
                      /\ audio_stream' = None
                      /\ creation_failures' = creation_failures + 1
                      /\ failStreak' = failStreak + 1
                      /\ SetHealth(CreationFailed(Health, creation_failures + 1))
                      /\ fault' = "create_timeout"
                 [] outcome = "timeout_orphan" ->
                      /\ is_recording' = FALSE
                      /\ audio_capture_enabled' = FALSE
                      /\ audio_stream' = None
                      /\ creation_failures' = creation_failures + 1
                      /\ failStreak' = failStreak + 1
                      /\ LET h0 == [Health EXCEPT !.streams = Put(@, NewStream, "running"),
                                                  !.leaks = Put(@, NewStream, 0)]
                             h1 == close_stream_with_timeout(h0, NewStream, closeOutcome)
                         IN SetHealth(CreationFailed(h1, creation_failures + 1))
                      /\ fault' = "create_timeout"
                 [] outcome = "timeout_late" ->
                      /\ closeOutcome = "closed"
                      /\ is_recording' = FALSE
                      /\ audio_capture_enabled' = FALSE
                      /\ audio_stream' = None
                      /\ creation_failures' = creation_failures + 1
                      /\ failStreak' = failStreak + 1
                      /\ LET h0 == [Health EXCEPT !.streams = Put(@, NewStream, "running"),
                                                  !.leaks = Put(@, NewStream, 0)]
                         IN SetHealth(CreationFailed(h0, creation_failures + 1))
                      /\ fault' = "create_timeout"
    /\ smPc' = IF IgnoresCommandDown(is_recording)
               THEN "get"
               ELSE AfterWait(outcome \in {"timeout", "timeout_orphan", "timeout_late"}
                              \/ closeOutcome = "hung")
    /\ UNCHANGED <<keyVars, typing_in_progress, next_chunk_to_type,
                   pending_chunks, workers, chunkLog, dispatched, flushLogVars,
                   stepVars>>

NewChunkLog(frames) ==
    [frames |-> frames, subs |-> 0, notes |-> 0, outcome |-> "running", posts |-> <<>>,
     timedOut |-> FALSE]

\* COMMAND_UP while recording: stop, snapshot the buffer, close the stream,
\* spawn do_transcription.
CommandUpRecording(closeOutcome) ==
    /\ Receives("COMMAND_UP")
    /\ is_recording
    /\ command_queue' = Tail(command_queue)
    /\ is_recording' = FALSE
    /\ current_chunk_id' = None
    /\ audio_capture_enabled' = FALSE
    /\ recording_buffer' = NoBuffer
    /\ Fails(IF closeOutcome = "hung" THEN 1 ELSE 0)
    /\ IF audio_stream # None
       THEN /\ closeOutcome \in CloseOutcomes(streams[audio_stream])
            /\ SetHealth(close_stream_with_timeout(Health, audio_stream, closeOutcome))
       ELSE /\ closeOutcome = "closed"
            /\ SetHealth(Health)
    /\ audio_stream' = None
    /\ workers' = Put(workers, current_chunk_id,
                      [frames |-> Len(recording_buffer.frames), attempt |-> 0])
    /\ chunkLog' = Put(chunkLog, current_chunk_id, NewChunkLog(Len(recording_buffer.frames)))
    /\ dispatched' = Append(dispatched, current_chunk_id)
    /\ fault' = "none"
    /\ smPc' = AfterWait(closeOutcome = "hung")
    /\ UNCHANGED <<keyVars, typing_in_progress, next_chunk_to_record,
                   next_chunk_to_type, pending_chunks, creationVars, stepVars, flushLogVars>>

\* COMMAND_UP while not recording: retry the flush if anything is pending.
CommandUpIdle ==
    /\ Receives("COMMAND_UP")
    /\ ~is_recording
    /\ command_queue' = Tail(command_queue)
    /\ IF DOMAIN pending_chunks # {}
       THEN /\ Flush(pending_chunks, next_chunk_to_type, flushed)
            /\ typeLog' = DeferralLogged(typeLog, pending_chunks, next_chunk_to_type, flushed)
       ELSE UNCHANGED <<pending_chunks, next_chunk_to_type, flushed, smPc,
                        typing_in_progress, typeLog>>
    /\ fault' = "none"
    /\ UNCHANGED <<envFaults, keyVars, is_recording, current_chunk_id,
                   next_chunk_to_record, audio_stream, captureVars, healthVars,
                   creationVars, stepVars, workers, chunkLog, dispatched,
                   queuedWhileRecording, doneOrder>>

\* Faulty variant: the CHUNK_DONE handler flushes without looking at is_recording.
FlushOnChunkDoneAlways(recording) == TRUE

\* Whether the CHUNK_DONE handler runs the flush.
FlushOnChunkDone(recording) == ~recording

\* CHUNK_DONE: store the text, flush unless a recording is running.
ChunkDoneReceived ==
    /\ Receives("CHUNK_DONE")
    /\ command_queue' = Tail(command_queue)
    /\ doneOrder' = Append(doneOrder, Head(command_queue).id)
    /\ LET m == Head(command_queue)
           stored == Put(pending_chunks, m.id, m.text)
       IN IF FlushOnChunkDone(is_recording)
          THEN /\ Flush(stored, next_chunk_to_type, flushed)
               /\ typeLog' = DeferralLogged(typeLog, stored, next_chunk_to_type, flushed)
               /\ UNCHANGED queuedWhileRecording
          ELSE /\ pending_chunks' = stored
               /\ queuedWhileRecording' = queuedWhileRecording \cup {m.id}
               /\ UNCHANGED <<next_chunk_to_type, flushed, smPc, typing_in_progress,
                              typeLog>>
    /\ fault' = "none"
    /\ UNCHANGED <<envFaults, keyVars, is_recording, current_chunk_id,
                   next_chunk_to_record, audio_stream, captureVars, healthVars,
                   creationVars, stepVars, workers, chunkLog, dispatched>>

\* What the osascript subprocess can do: exit 0, exit non-zero, or
\* subprocess.run raises.
InjectResults == {"typed", "failed", "raised"}

\* The value type_text returns to try_type_pending_chunks after osascript ran.
TypeTextReturns(result) == result = "typed"

\* Faulty variant: the flag is cleared after subprocess.run returns, not in a
\* finally clause.
ClearsFlagOnReturnOnly(result) == result # "raised"

\* Whether type_text clears typing_in_progress when it leaves the try block:
\* the finally clause runs on return and on exception alike.
ClearsFlagOnExit(result) == TRUE

\* type_text after the poll loop: set the flag and start osascript.
TypeTextBegin ==
    /\ ~quitRequested
    /\ smPc = "polled"
    /\ smPc' = "typing"
    /\ typing_in_progress' = TRUE
    /\ fault' = "none"
    /\ UNCHANGED <<envFaults, keyVars, command_queue, is_recording, current_chunk_id,
                   next_chunk_to_record, next_chunk_to_type, pending_chunks,
                   audio_stream, captureVars, healthVars, creationVars, stepVars, workers,
                   chunkLog, dispatched, flushLogVars>>

\* type_text from the return of osascript; then the rest of the flush loop,
\* or the except handler of the state manager.
TypeTextFinish(result) ==
    LET entry == [id |-> next_chunk_to_type, rec |-> is_recording, res |-> result,
                  before |-> Len(flushed)]
        rest == Del(pending_chunks, next_chunk_to_type)
    IN
    /\ ~quitRequested
    /\ smPc = "typing"
    /\ Fails(IF result = "typed" THEN 0 ELSE 1)
    /\ CASE result = "raised" ->
              /\ typing_in_progress' = ~ClearsFlagOnExit(result)
              /\ smPc' = "get"
              /\ is_recording' = FALSE
              /\ current_chunk_id' = None
              /\ typeLog' = Append(typeLog, entry)
              /\ fault' = "type_raise"
              /\ UNCHANGED <<pending_chunks, next_chunk_to_type, flushed>>
         [] result # "raised" /\ TypeTextReturns(result) ->
              /\ Flush(rest, next_chunk_to_type + 1, Append(flushed, next_chunk_to_type))
              /\ typeLog' = DeferralLogged(Append(typeLog, entry), rest,
                                           next_chunk_to_type + 1,
                                           Append(flushed, next_chunk_to_type))
              /\ fault' = "none"
              /\ UNCHANGED <<is_recording, current_chunk_id>>
         [] result # "raised" /\ ~TypeTextReturns(result) ->
              /\ typing_in_progress' = ~ClearsFlagOnExit(result)
              /\ smPc' = "get"
              /\ typeLog' = Append(typeLog, entry)
              /\ fault' = "none"
              /\ UNCHANGED <<pending_chunks, next_chunk_to_type, flushed, is_recording,
                             current_chunk_id>>
    /\ UNCHANGED <<keyVars, command_queue, next_chunk_to_record, audio_stream,
                   captureVars, healthVars, creationVars, stepVars, workers, chunkLog,
                   dispatched, queuedWhileRecording, doneOrder>>

\* ------------------------------------------------- Transcription dispatcher
\* Faulty variant: the empty-recording check is missing.
NoAudioCapturedNever(frames) == FALSE

\* transcribe_recorded_audio returns "" at once for an empty recording.
NoAudioCaptured(frames) == frames = 0

\* What one model.transcribe submission can do within the deadline.
AttemptResults == {"ok", "timeout", "error"}

\* Faulty variant: the retry test is off by one, `attempt <= MAX_TRANSCRIPTION_RETRIES`.
RetriesOnceMore(res, attempt) == res = "error" /\ attempt <= MAX_TRANSCRIPTION_RETRIES

\* Faulty variant: a timeout is retried like any other failure.
RetriesAfterAnyFailure(res, attempt) ==
    res # "ok" /\ attempt < MAX_TRANSCRIPTION_RETRIES

\* Whether the retry loop goes round again after an attempt ended with res.
RetriesAfter(res, attempt) == res = "error" /\ attempt < MAX_TRANSCRIPTION_RETRIES

\* Faulty variant: do_transcription has no except clause and the audio
\* processing error escapes transcribe_recorded_audio, so the thread dies
\* without posting.
PostUnlessAudioError(cid, text, outcome, notified) ==
    /\ command_queue' = IF outcome = "ioerr" THEN command_queue
                        ELSE Append(command_queue, ChunkDone(cid, text))
    /\ workers' = Del(workers, cid)
    /\ chunkLog' = [chunkLog EXCEPT ![cid].outcome = outcome,
                                    ![cid].posts = IF outcome = "ioerr" THEN @
                                                   ELSE Append(@, text),
                                    ![cid].notes = @ + (IF notified THEN 1 ELSE 0),
                                    ![cid].subs = @ + (IF outcome \in {"empty", "ioerr"}
                                                       THEN 0 ELSE 1),
                                    ![cid].timedOut = @ \/ outcome = "timeout"]

\* do_transcription posts the result of transcribe_recorded_audio.
Post(cid, text, outcome, notified) ==
    /\ command_queue' = Append(command_queue, ChunkDone(cid, text))
    /\ workers' = Del(workers, cid)
    /\ chunkLog' = [chunkLog EXCEPT ![cid].outcome = outcome,
                                    ![cid].posts = Append(@, text),
                                    ![cid].notes = @ + (IF notified THEN 1 ELSE 0),
                                    ![cid].subs = @ + (IF outcome \in {"empty", "ioerr"}
                                                       THEN 0 ELSE 1),
                                    ![cid].timedOut = @ \/ outcome = "timeout"]

WorkerUnchanged ==
    UNCHANGED <<keyVars, typing_in_progress, smVars, captureVars, healthVars,
                creationVars, stepVars, dispatched, flushLogVars>>

\* A recording with no frames: no recognizer call.
TranscribeNothing(cid) ==
    /\ ~quitRequested
    /\ cid \in DOMAIN workers
    /\ NoAudioCaptured(workers[cid].frames)
    /\ Post(cid, "", "empty", FALSE)
    /\ Fails(0)
    /\ fault' = "none"
    /\ WorkerUnchanged

\* numpy / wave raise before the retry loop: the catch-all handler.
TranscribeAudioError(cid) ==
    /\ ~quitRequested
    /\ cid \in DOMAIN workers
    /\ ~NoAudioCaptured(workers[cid].frames)
    /\ workers[cid].attempt = 0
    /\ Post(cid, "", "ioerr", TRUE)
    /\ Fails(1)
    /\ fault' = "none"
    /\ WorkerUnchanged

\* One pass of the retry loop: submit model.transcribe and wait for it.
TranscribeAttempt(cid, res, text) ==
    /\ ~quitRequested
    /\ cid \in DOMAIN workers
    /\ ~NoAudioCaptured(workers[cid].frames)
    /\ Fails(IF res # "ok" /\ workers[cid].attempt = 0 THEN 1 ELSE 0)
    /\ IF RetriesAfter(res, workers[cid].attempt)
       THEN /\ text = ""
            /\ workers' = [workers EXCEPT ![cid].attempt = @ + 1]
            /\ chunkLog' = [chunkLog EXCEPT ![cid].subs = @ + 1,
                                            ![cid].timedOut = @ \/ res = "timeout"]
            /\ UNCHANGED command_queue
       ELSE CASE res = "ok" -> Post(cid, text, "ok", FALSE)
              [] res = "timeout" -> text = "" /\ Post(cid, "", "timeout", TRUE)
              [] res = "error" -> text = "" /\ Post(cid, "", "failed", TRUE)
    /\ fault' = "none"
    /\ WorkerUnchanged

Processes == 1..MaxProcesses

\* No process has been launched yet and no lock file exists.
LockInit ==
    /\ lock_file = None
    /\ flock_owner = EmptyMap
    /\ lock_file_handle = [p \in Processes |-> None]
    /\ procPc = [p \in Processes |-> "start"]

\* ------------------------------------------------------------ Specification
Init ==
    /\ keyDown = FALSE
    /\ right_command_pressed = FALSE
    /\ tapReturn = "none"
    /\ typing_in_progress = FALSE
    /\ command_queue = <<>>
    /\ smPc = "get"
    /\ is_recording = FALSE
    /\ current_chunk_id = None
    /\ next_chunk_to_record = 0
    /\ next_chunk_to_type = 0
    /\ pending_chunks = EmptyMap
    /\ audio_stream = None
    /\ recording_buffer = NoBuffer
    /\ audio_capture_enabled = FALSE
    /\ streams = EmptyMap
    /\ abandoned_streams = 0
    /\ creation_failures = 0
    /\ notifications = NoNotifications
    /\ lockHeld = TRUE
    /\ quitRequested = FALSE
    /\ workers = EmptyMap
    /\ presses = 0
    /\ chunkLog = EmptyMap
    /\ dispatched = <<>>
    /\ typeLog = <<>>
    /\ flushed = <<>>
    /\ queuedWhileRecording = {}
    /\ doneOrder = <<>>
    /\ leakLog = EmptyMap
    /\ closeCalls = 0
    /\ failStreak = 0
    /\ polls = 0
    /\ inFlight = {}
    /\ chunk_id = None
    /\ recorded_audio = EmptyMap
    /\ pool_running = {}
    /\ pool_queue = <<>>
    /\ waiting = EmptyMap
    /\ audio_len = 0
    /\ timeout_seconds = None
    /\ transcript_log = <<>>
    /\ LockInit
    /\ envFaults = 0
    /\ fault = "none"

Next ==
    \/ KeyPress
    \/ KeyRelease
    \/ \E s \in DOMAIN streams : AudioCallback(s)
    \/ \E o \in CreateOutcomes, c \in {"closed", "hung"} : CommandDown(o, c)
    \/ \E c \in {"closed", "hung"} : CommandUpRecording(c)
    \/ CommandUpIdle
    \/ ChunkDoneReceived
    \/ TypeTextBegin
    \/ \E r \in InjectResults : TypeTextFinish(r)
    \/ \E cid \in DOMAIN workers : TranscribeNothing(cid)
    \/ \E cid \in DOMAIN workers : TranscribeAudioError(cid)
    \/ \E cid \in DOMAIN workers, res \in AttemptResults, t \in Texts :
          TranscribeAttempt(cid, res, t)

Spec == Init /\ [][Next]_vars

\* ------------------------------------------------- after the first dictation
\* The application after one dictation has been recorded and transcribed
\* without failure: the key is released, the stream is closed, and the
\* CHUNK_DONE of chunk 0 is waiting in command_queue.  presses counts the
\* presses that follow.
InitChunkQueued ==
    /\ keyDown = FALSE
    /\ right_command_pressed = FALSE
    /\ tapReturn = "none"
    /\ typing_in_progress = FALSE
    /\ command_queue = <<ChunkDone(0, "hi")>>
    /\ smPc = "get"
    /\ is_recording = FALSE
    /\ current_chunk_id = None
    /\ next_chunk_to_record = 1
    /\ next_chunk_to_type = 0
    /\ pending_chunks = EmptyMap
    /\ audio_stream = None
    /\ recording_buffer = NoBuffer
    /\ audio_capture_enabled = FALSE
    /\ streams = Put(EmptyMap, 0, "closed")
    /\ abandoned_streams = 0
    /\ creation_failures = 0
    /\ notifications = NoNotifications
    /\ lockHeld = TRUE
    /\ quitRequested = FALSE
    /\ workers = EmptyMap
    /\ presses = 0
    /\ chunkLog = Put(EmptyMap, 0, [NewChunkLog(1) EXCEPT !.subs = 1, !.outcome = "ok",
                                                          !.posts = <<"hi">>])
    /\ dispatched = <<0>>
    /\ typeLog = <<>>
    /\ flushed = <<>>
    /\ queuedWhileRecording = {}
    /\ doneOrder = <<>>
    /\ leakLog = Put(EmptyMap, 0, 0)
    /\ closeCalls = 1
    /\ failStreak = 0
    /\ polls = 0
    /\ inFlight = {}
    /\ chunk_id = None
    /\ recorded_audio = EmptyMap
    /\ pool_running = {}
    /\ pool_queue = <<>>
    /\ waiting = EmptyMap
    /\ audio_len = 0
    /\ timeout_seconds = None
    /\ transcript_log = <<>>
    /\ LockInit
    /\ envFaults = 0
    /\ fault = "none"

SpecChunkQueued == InitChunkQueued /\ [][Next]_vars

\* ------------------------------------------------- the state manager alone
\* COMMAND_DOWN and COMMAND_UP put on the queue in any order, one at a time,
\* and handled by the state manager while the audio thread delivers frames;
\* the audio backend may fail on each message.
\* presses counts the COMMAND_DOWN messages.
PostCommand(m) ==
    /\ ~quitRequested
    /\ smPc = "get"
    /\ command_queue = <<>>
    /\ m = DownMsg => presses < MaxCommands
    /\ command_queue' = <<m>>
    /\ presses' = IF m = DownMsg THEN presses + 1 ELSE presses
    /\ envFaults' = 0
    /\ fault' = "none"
    /\ UNCHANGED <<keyDown, right_command_pressed, tapReturn, typing_in_progress, smVars,
                   captureVars, healthVars, creationVars, stepVars, workers, chunkLog,
                   dispatched, flushLogVars>>

NextCommands ==
    \/ \E m \in {DownMsg, UpMsg} : PostCommand(m)
    \/ \E s \in DOMAIN streams : AudioCallback(s)
    \/ \E o \in CreateOutcomes, c \in {"closed", "hung"} : CommandDown(o, c)
    \/ \E c \in {"closed", "hung"} : CommandUpRecording(c)
    \/ CommandUpIdle

SpecCommands == Init /\ [][NextCommands]_vars

\* ------------------------------------------- close_stream_with_timeout alone
\* The close wrapper applied to handles directly: any handle that exists may
\* be passed to it, any number of times.
OpenStream ==
    /\ ~quitRequested
    /\ Cardinality(DOMAIN streams) < MaxStreams
    /\ SetHealth([Health EXCEPT !.streams = Put(@, NewStream, "running"),
                                !.leaks = Put(@, NewStream, 0)])
    /\ fault' = "none"
    /\ UNCHANGED <<envFaults, keyVars, typing_in_progress, command_queue, smVars,
                   captureVars, creationVars, stepVars, workers, chunkLog, dispatched,
                   flushLogVars>>

CloseStream(s, outcome) ==
    /\ ~quitRequested
    /\ closeCalls < MaxCloseCalls
    /\ outcome \in CloseOutcomes(streams[s])
    /\ SetHealth(close_stream_with_timeout(Health, s, outcome))
    /\ fault' = "none"
    /\ UNCHANGED <<envFaults, keyVars, typing_in_progress, command_queue, smVars,
                   captureVars, creationVars, stepVars, workers, chunkLog, dispatched,
                   flushLogVars>>

NextClose ==
    \/ OpenStream
    \/ \E s \in DOMAIN streams, o \in {"closed", "hung"} : CloseStream(s, o)

SpecClose == Init /\ [][NextClose]_vars

\* ------------------------------------------------------- type_text alone
\* The flush loop with the poll loop of type_text taken one poll at a time,
\* while the key is pressed and released.  Chunks are stored one at a time,
\* so type_text is called on one text and the loop ends after it.
StoreChunk(text) ==
    /\ ~quitRequested
    /\ smPc = "get"
    /\ pending_chunks = EmptyMap
    /\ next_chunk_to_type < MaxCalls
    /\ pending_chunks' = Put(pending_chunks, next_chunk_to_type, text)
    /\ fault' = "none"
    /\ UNCHANGED <<envFaults, keyVars, typing_in_progress, command_queue, smPc,
                   is_recording, current_chunk_id, next_chunk_to_record,
                   next_chunk_to_type, audio_stream, captureVars, healthVars,
                   creationVars, lockVars, stepVars, workers, chunkLog, dispatched,
                   flushLogVars>>

\* Faulty variant: the loop makes one poll more than max_wait_iterations.
PollLoopExhaustedLate(i) == i > max_wait_iterations

\* `for i in range(max_wait_iterations)` has run out after i polls.
PollLoopExhausted(i) == i >= max_wait_iterations

\* try_type_pending_chunks calls type_text on the next chunk: empty text
\* returns True at once, any other text enters the poll loop.
TypeTextCall ==
    /\ ~quitRequested
    /\ smPc = "get"
    /\ next_chunk_to_type \in DOMAIN pending_chunks
    /\ IF pending_chunks[next_chunk_to_type] = ""
       THEN /\ pending_chunks' = Del(pending_chunks, next_chunk_to_type)
            /\ next_chunk_to_type' = next_chunk_to_type + 1
            /\ flushed' = Append(flushed, next_chunk_to_type)
            /\ UNCHANGED <<smPc, polls>>
       ELSE /\ Len(typeLog) < MaxCalls
            /\ smPc' = "polling"
            /\ polls' = 0
            /\ UNCHANGED <<pending_chunks, next_chunk_to_type, flushed>>
    /\ fault' = "none"
    /\ UNCHANGED <<envFaults, keyVars, typing_in_progress, command_queue,
                   is_recording, current_chunk_id, next_chunk_to_record,
                   audio_stream, captureVars, healthVars, creationVars, lockVars, captureStepVars,
                   poolVars, transcribeVars, workers, chunkLog, dispatched, typeLog,
                   queuedWhileRecording, doneOrder>>

\* One pass of the poll loop: break when the key is not held; otherwise
\* sleep, and return False from the else clause when the range is used up.
TypeTextPollOnce ==
    /\ ~quitRequested
    /\ smPc = "polling"
    /\ IF ~keyDown
       THEN /\ smPc' = "polled"
            /\ UNCHANGED <<polls, typeLog>>
       ELSE /\ polls' = polls + 1
            /\ IF PollLoopExhausted(polls + 1)
               THEN /\ smPc' = "get"
                    /\ typeLog' = Append(typeLog,
                                         [id |-> next_chunk_to_type, rec |-> is_recording,
                                          res |-> "deferred", before |-> Len(flushed)])
               ELSE UNCHANGED <<smPc, typeLog>>
    /\ fault' = "none"
    /\ UNCHANGED <<envFaults, keyVars, typing_in_progress, command_queue,
                   is_recording, current_chunk_id, next_chunk_to_record,
                   next_chunk_to_type, pending_chunks, audio_stream, captureVars,
                   healthVars, creationVars, lockVars, captureStepVars, poolVars, transcribeVars,
                   workers, chunkLog, dispatched, flushed, queuedWhileRecording,
                   doneOrder>>

NextTypeText ==
    \/ KeyPress
    \/ KeyRelease
    \/ \E t \in Texts : StoreChunk(t)
    \/ TypeTextCall
    \/ TypeTextPollOnce
    \/ TypeTextBegin
    \/ \E r \in InjectResults : TypeTextFinish(r)

SpecTypeText == Init /\ [][NextTypeText]_vars

\* ------------------------------------------- the audio thread and COMMAND_UP
\* audio_callback and the COMMAND_UP handler taken line by line, so that a
\* callback can be between its check of audio_capture_enabled and its
\* `with recording_lock` while the handler disables capture, sleeps and grabs
\* the audio.  Recordings are made and handed over; transcription is left out.

\* audio_callback up to the lock: return at once if capture is disabled.
CallbackCheck(s) ==
    /\ ~quitRequested
    /\ streams[s] = "running"
    /\ s \notin inFlight
    /\ audio_capture_enabled
    /\ Len(recording_buffer.frames) + Cardinality(inFlight) < MaxFrames
    /\ inFlight' = inFlight \cup {s}
    /\ fault' = "none"
    /\ UNCHANGED <<envFaults, keyVars, typing_in_progress, command_queue, smVars,
                   captureVars, healthVars, creationVars, lockVars, polls, chunk_id,
                   recorded_audio, poolVars, transcribeVars, workers, chunkLog, dispatched,
                   flushLogVars>>

\* audio_callback under recording_lock: append if there is a buffer.  A list
\* that recording_buffer still refers to receives the frame as well.
CallbackAppend(s) ==
    /\ ~quitRequested
    /\ s \in inFlight
    /\ inFlight' = inFlight \ {s}
    /\ IF recording_buffer.none
       THEN UNCHANGED <<recording_buffer, recorded_audio>>
       ELSE /\ recording_buffer' = [recording_buffer EXCEPT !.frames = Append(@, s)]
            /\ recorded_audio' =
                   [c \in DOMAIN recorded_audio |->
                       IF recorded_audio[c].shared
                       THEN [recorded_audio[c] EXCEPT !.frames = Append(@, s)]
                       ELSE recorded_audio[c]]
    /\ fault' = "none"
    /\ UNCHANGED <<envFaults, keyVars, typing_in_progress, command_queue, smVars,
                   audio_capture_enabled, healthVars, creationVars, lockVars, polls, chunk_id,
                   poolVars, transcribeVars, workers, chunkLog, dispatched, flushLogVars>>

\* COMMAND_UP while recording, steps 1 and 2: is_recording and the chunk id
\* are taken, capture is disabled, the handler sleeps.
EndCaptureDisable ==
    /\ Receives("COMMAND_UP")
    /\ is_recording
    /\ command_queue' = Tail(command_queue)
    /\ is_recording' = FALSE
    /\ chunk_id' = current_chunk_id
    /\ current_chunk_id' = None
    /\ audio_capture_enabled' = FALSE
    /\ smPc' = "settling"
    /\ fault' = "none"
    /\ UNCHANGED <<envFaults, keyVars, typing_in_progress, next_chunk_to_record,
                   next_chunk_to_type, pending_chunks, audio_stream, recording_buffer,
                   healthVars, creationVars, lockVars, polls, inFlight, recorded_audio, poolVars, transcribeVars,
                   workers, chunkLog, dispatched, flushLogVars>>

\* Faulty variant: the list itself is handed over and recording_buffer keeps
\* referring to it.
SnapshotAliased(buffer) ==
    [audio |-> [frames |-> buffer.frames, shared |-> TRUE], buffer |-> buffer]

\* `recorded_audio = recording_buffer[:] if recording_buffer else []` and
\* `recording_buffer = None`, both under recording_lock: the audio is a copy.
Snapshot(buffer) ==
    [audio |-> [frames |-> buffer.frames, shared |-> FALSE], buffer |-> NoBuffer]

\* COMMAND_UP step 3: grab the audio.
EndCaptureSnapshot ==
    /\ ~quitRequested
    /\ smPc = "settling"
    /\ recorded_audio' = Put(recorded_audio, chunk_id, Snapshot(recording_buffer).audio)
    /\ recording_buffer' = Snapshot(recording_buffer).buffer
    /\ smPc' = "snapshotted"
    /\ fault' = "none"
    /\ UNCHANGED <<envFaults, keyVars, typing_in_progress, command_queue, is_recording,
                   current_chunk_id, next_chunk_to_record, next_chunk_to_type,
                   pending_chunks, audio_stream, audio_capture_enabled, healthVars,
                   creationVars, lockVars, polls, inFlight, chunk_id, poolVars, transcribeVars, workers,
                   chunkLog, dispatched, flushLogVars>>

\* COMMAND_UP steps 4 and 5: close the stream, spawn do_transcription on
\* the audio.
EndCaptureDispatch(closeOutcome) ==
    /\ ~quitRequested
    /\ smPc = "snapshotted"
    /\ Fails(IF closeOutcome = "hung" THEN 1 ELSE 0)
    /\ IF audio_stream # None
       THEN /\ closeOutcome \in CloseOutcomes(streams[audio_stream])
            /\ SetHealth(close_stream_with_timeout(Health, audio_stream, closeOutcome))
       ELSE /\ closeOutcome = "closed"
            /\ SetHealth(Health)
    /\ audio_stream' = None
    /\ workers' = Put(workers, chunk_id,
                      [frames |-> Len(recorded_audio[chunk_id].frames), attempt |-> 0])
    /\ chunkLog' = Put(chunkLog, chunk_id,
                       NewChunkLog(Len(recorded_audio[chunk_id].frames)))
    /\ dispatched' = Append(dispatched, chunk_id)
    /\ fault' = "none"
    /\ smPc' = AfterWait(closeOutcome = "hung")
    /\ UNCHANGED <<keyVars, typing_in_progress, command_queue, is_recording,
                   current_chunk_id, next_chunk_to_record, next_chunk_to_type,
                   pending_chunks, captureVars, creationVars, lockVars, stepVars, flushLogVars>>

NextCapture ==
    \/ KeyPress
    \/ KeyRelease
    \/ \E s \in DOMAIN streams : CallbackCheck(s)
    \/ \E s \in DOMAIN streams : CallbackAppend(s)
    \/ \E o \in CreateOutcomes, c \in {"closed", "hung"} : CommandDown(o, c)
    \/ EndCaptureDisable
    \/ EndCaptureSnapshot
    \/ \E c \in {"closed", "hung"} : EndCaptureDispatch(c)
    \/ CommandUpIdle

SpecCapture == Init /\ [][NextCapture]_vars

\* ------------------------------------------------ transcription_executor alone
\* The retry loop of transcribe_recorded_audio taken call by call: each
\* do_transcription thread submits model.transcribe to the pool and waits in
\* future.result(timeout); a call keeps its worker until it returns, whether
\* or not its thread is still waiting.  Recordings are handed over directly.
DispatchAudio ==
    /\ ~quitRequested
    /\ next_chunk_to_record < MaxChunks
    /\ next_chunk_to_record' = next_chunk_to_record + 1
    /\ workers' = Put(workers, next_chunk_to_record, [frames |-> 1, attempt |-> 0])
    /\ chunkLog' = Put(chunkLog, next_chunk_to_record, NewChunkLog(1))
    /\ dispatched' = Append(dispatched, next_chunk_to_record)
    /\ fault' = "none"
    /\ UNCHANGED <<envFaults, keyVars, typing_in_progress, command_queue, smPc,
                   is_recording, current_chunk_id, next_chunk_to_type, pending_chunks,
                   audio_stream, captureVars, healthVars, creationVars, lockVars, stepVars,
                   flushLogVars>>

\* Faulty variant: the executor has one worker.
PoolSingleWorker(running) == Cardinality(running) < 1

\* ThreadPoolExecutor(max_workers=2): a submitted call starts at once when
\* fewer than max_workers calls are being executed.
PoolHasIdleWorker(running) == Cardinality(running) < max_workers

Call(cid) == [cid |-> cid, attempt |-> workers[cid].attempt]

\* transcription_executor.submit(...) followed by future.result(timeout=...).
Submit(cid) ==
    /\ ~quitRequested
    /\ cid \in DOMAIN workers
    /\ cid \notin DOMAIN waiting
    /\ ~NoAudioCaptured(workers[cid].frames)
    /\ IF PoolHasIdleWorker(pool_running)
       THEN /\ pool_running' = pool_running \cup {Call(cid)}
            /\ UNCHANGED pool_queue
       ELSE /\ pool_queue' = Append(pool_queue, Call(cid))
            /\ UNCHANGED pool_running
    /\ waiting' = Put(waiting, cid, Call(cid))
    /\ fault' = "none"
    /\ UNCHANGED <<envFaults, keyVars, typing_in_progress, command_queue, smVars,
                   captureVars, healthVars, creationVars, lockVars, polls, captureStepVars, transcribeVars,
                   workers, chunkLog, dispatched, flushLogVars>>

\* The worker that finished a call takes the next call from the queue.
WorkerFreed(call) ==
    /\ pool_running' = (pool_running \ {call}) \cup
                       (IF pool_queue = <<>> THEN {} ELSE {Head(pool_queue)})
    /\ pool_queue' = IF pool_queue = <<>> THEN <<>> ELSE Tail(pool_queue)

\* model.transcribe returns or raises on its worker.  If the thread that
\* submitted it is still in future.result, it goes on: return the text,
\* retry, or give up.
CallReturns(call, res, text) ==
    /\ ~quitRequested
    /\ call \in pool_running
    /\ res \in {"ok", "error"}
    /\ WorkerFreed(call)
    /\ IF call.cid \in DOMAIN waiting /\ waiting[call.cid] = call
       THEN /\ waiting' = Del(waiting, call.cid)
            /\ IF RetriesAfter(res, call.attempt)
               THEN /\ text = ""
                    /\ workers' = [workers EXCEPT ![call.cid].attempt = @ + 1]
                    /\ chunkLog' = [chunkLog EXCEPT ![call.cid].subs = @ + 1]
                    /\ UNCHANGED command_queue
               ELSE CASE res = "ok" -> Post(call.cid, text, "ok", FALSE)
                      [] res = "error" -> text = "" /\ Post(call.cid, "", "failed", TRUE)
       ELSE /\ text = ""
            /\ UNCHANGED <<waiting, workers, chunkLog, command_queue>>
    /\ fault' = "none"
    /\ UNCHANGED <<envFaults, keyVars, typing_in_progress, smVars, captureVars,
                   healthVars, creationVars, lockVars, polls, captureStepVars, transcribeVars, dispatched,
                   flushLogVars>>

\* future.result raises FuturesTimeoutError: notify, future.cancel(), return
\* "".  cancel() removes a call that has not started; a call that is being
\* executed keeps its worker.
WaitTimesOut(cid) ==
    /\ ~quitRequested
    /\ cid \in DOMAIN waiting
    /\ pool_queue' = SelectSeq(pool_queue, LAMBDA c : c # waiting[cid])
    /\ waiting' = Del(waiting, cid)
    /\ Post(cid, "", "timeout", TRUE)
    /\ fault' = "none"
    /\ UNCHANGED <<envFaults, keyVars, typing_in_progress, smVars, captureVars,
                   healthVars, creationVars, lockVars, polls, captureStepVars, transcribeVars, pool_running,
                   dispatched, flushLogVars>>

NextPool ==
    \/ DispatchAudio
    \/ \E cid \in DOMAIN workers : Submit(cid)
    \/ \E call \in pool_running, res \in {"ok", "error"}, t \in Texts :
          CallReturns(call, res, t)
    \/ \E cid \in DOMAIN waiting : WaitTimesOut(cid)

SpecPool == Init /\ [][NextPool]_vars

\* ------------------------------------------- transcribe_recorded_audio alone
\* transcribe_recorded_audio applied to one recording of any length up to
\* MaxAudioTenths tenths of a second, with the deadline and the transcript
\* log written out.  Lengths are counted in samples, so that
\* duration_seconds = audio_len / SAMPLE_RATE needs no fractions.
AudioLens == {t * (SAMPLE_RATE \div 10) : t \in 0..MaxAudioTenths}

Max(a, b) == IF a >= b THEN a ELSE b

\* `max(TRANSCRIPTION_TIMEOUT, int(duration_seconds * 2))`: int() drops the
\* fraction of 2 * len / SAMPLE_RATE.
transcription_timeout(len) == Max(TRANSCRIPTION_TIMEOUT, (2 * len) \div SAMPLE_RATE)

\* `if duration_seconds > TRANSCRIPT_LOG_THRESHOLD and text`, on the path
\* where model.transcribe returned.
LogsTranscript(len, text) ==
    /\ len > TRANSCRIPT_LOG_THRESHOLD * SAMPLE_RATE
    /\ text # ""

InitTranscribe ==
    /\ keyDown = FALSE
    /\ right_command_pressed = FALSE
    /\ tapReturn = "none"
    /\ typing_in_progress = FALSE
    /\ command_queue = <<>>
    /\ smPc = "get"
    /\ is_recording = FALSE
    /\ current_chunk_id = None
    /\ next_chunk_to_record = 1
    /\ next_chunk_to_type = 0
    /\ pending_chunks = EmptyMap
    /\ audio_stream = None
    /\ recording_buffer = NoBuffer
    /\ audio_capture_enabled = FALSE
    /\ streams = Put(EmptyMap, 0, "closed")
    /\ abandoned_streams = 0
    /\ creation_failures = 0
    /\ notifications = NoNotifications
    /\ lockHeld = TRUE
    /\ quitRequested = FALSE
    /\ audio_len \in AudioLens
    /\ workers = Put(EmptyMap, 0, [frames |-> IF audio_len = 0 THEN 0 ELSE 1,
                                   attempt |-> 0])
    /\ presses = 0
    /\ chunkLog = Put(EmptyMap, 0, NewChunkLog(IF audio_len = 0 THEN 0 ELSE 1))
    /\ dispatched = <<0>>
    /\ typeLog = <<>>
    /\ flushed = <<>>
    /\ queuedWhileRecording = {}
    /\ doneOrder = <<>>
    /\ leakLog = Put(EmptyMap, 0, 0)
    /\ closeCalls = 1
    /\ failStreak = 0
    /\ polls = 0
    /\ inFlight = {}
    /\ chunk_id = None
    /\ recorded_audio = EmptyMap
    /\ pool_running = {}
    /\ pool_queue = <<>>
    /\ waiting = EmptyMap
    /\ timeout_seconds = None
    /\ transcript_log = <<>>
    /\ LockInit
    /\ envFaults = 0
    /\ fault = "none"

\* The audio is combined and written to the temporary file, and the
\* deadline is calculated.
CalculateTimeout(cid) ==
    /\ ~quitRequested
    /\ cid \in DOMAIN workers
    /\ ~NoAudioCaptured(workers[cid].frames)
    /\ timeout_seconds = None
    /\ timeout_seconds' = transcription_timeout(audio_len)
    /\ fault' = "none"
    /\ UNCHANGED <<envFaults, keyVars, typing_in_progress, command_queue, smVars,
                   captureVars, healthVars, creationVars, lockVars, polls, captureStepVars,
                   poolVars, audio_len, transcript_log, workers, chunkLog,
                   dispatched, flushLogVars>>

\* One pass of the retry loop, with the transcript log.
TranscribeAttemptLogged(cid, res, text) ==
    /\ ~quitRequested
    /\ cid \in DOMAIN workers
    /\ timeout_seconds # None
    /\ Fails(0)
    /\ IF RetriesAfter(res, workers[cid].attempt)
       THEN /\ text = ""
            /\ workers' = [workers EXCEPT ![cid].attempt = @ + 1]
            /\ chunkLog' = [chunkLog EXCEPT ![cid].subs = @ + 1,
                                            ![cid].timedOut = @ \/ res = "timeout"]
            /\ UNCHANGED command_queue
       ELSE CASE res = "ok" -> Post(cid, text, "ok", FALSE)
              [] res = "timeout" -> text = "" /\ Post(cid, "", "timeout", TRUE)
              [] res = "error" -> text = "" /\ Post(cid, "", "failed", TRUE)
    /\ transcript_log' =
           IF res = "ok" /\ LogsTranscript(audio_len, text)
           THEN Append(transcript_log, [len |-> audio_len, text |-> text])
           ELSE transcript_log
    /\ fault' = "none"
    /\ UNCHANGED <<keyVars, typing_in_progress, smVars, captureVars, healthVars,
                   creationVars, lockVars, polls, captureStepVars, poolVars, audio_len,
                   timeout_seconds, dispatched, flushLogVars>>

NextTranscribe ==
    \/ \E cid \in DOMAIN workers : TranscribeNothing(cid)
    \/ \E cid \in DOMAIN workers : TranscribeAudioError(cid)
    \/ \E cid \in DOMAIN workers : CalculateTimeout(cid)
    \/ \E cid \in DOMAIN workers, res \in AttemptResults, t \in Texts :
          TranscribeAttemptLogged(cid, res, t)

SpecTranscribe == InitTranscribe /\ [][NextTranscribe]_vars

\* ------------------------------------------------ single-instance lock alone
\* Several processes of the program are launched and quit.  Each system
\* call of acquire_single_instance_lock and release_single_instance_lock is
\* one step, so the calls of different processes interleave.  A flock
\* belongs to the handle that took it and is on the file, not on the path.
NotLockVars ==
    <<keyVars, typing_in_progress, command_queue, smVars, captureVars, healthVars,
      creationVars, polls, captureStepVars, poolVars, transcribeVars, workers, chunkLog,
      dispatched, flushLogVars, envFaults, fault>>

NewFile == Cardinality(DOMAIN flock_owner)

\* open(LOCK_FILE, 'w'): opens the file the path names, creating one if the
\* path names none.
AcquireOpen(p) ==
    /\ procPc[p] = "start"
    /\ IF lock_file = None
       THEN /\ lock_file' = NewFile
            /\ flock_owner' = Put(flock_owner, NewFile, None)
            /\ lock_file_handle' = [lock_file_handle EXCEPT ![p] = NewFile]
       ELSE /\ lock_file_handle' = [lock_file_handle EXCEPT ![p] = lock_file]
            /\ UNCHANGED <<lock_file, flock_owner>>
    /\ procPc' = [procPc EXCEPT ![p] = "opened"]
    /\ UNCHANGED NotLockVars

\* fcntl.flock(handle, LOCK_EX | LOCK_NB).  On success the function returns
\* True and the application runs; on failure the handle is closed, the
\* function returns False and the process exits.
AcquireFlock(p) ==
    /\ procPc[p] = "opened"
    /\ IF flock_owner[lock_file_handle[p]] = None
       THEN /\ flock_owner' = [flock_owner EXCEPT ![lock_file_handle[p]] = p]
            /\ procPc' = [procPc EXCEPT ![p] = "running"]
            /\ UNCHANGED lock_file_handle
       ELSE /\ lock_file_handle' = [lock_file_handle EXCEPT ![p] = None]
            /\ procPc' = [procPc EXCEPT ![p] = "exited"]
            /\ UNCHANGED flock_owner
    /\ UNCHANGED <<lock_file, NotLockVars>>

\* release_single_instance_lock, first call: fcntl.flock(handle, LOCK_UN).
ReleaseUnlock(p) ==
    /\ procPc[p] = "running"
    /\ flock_owner' = [flock_owner EXCEPT ![lock_file_handle[p]] = None]
    /\ procPc' = [procPc EXCEPT ![p] = "unlocked"]
    /\ UNCHANGED <<lock_file, lock_file_handle, NotLockVars>>

\* lock_file_handle.close().
ReleaseClose(p) ==
    /\ procPc[p] = "unlocked"
    /\ lock_file_handle' = [lock_file_handle EXCEPT ![p] = None]
    /\ procPc' = [procPc EXCEPT ![p] = "closed"]
    /\ UNCHANGED <<lock_file, flock_owner, NotLockVars>>

\* os.unlink(LOCK_FILE): removes the path, whichever file it names now; the
\* error raised when the path names none is caught.  The process then exits.
ReleaseUnlink(p) ==
    /\ procPc[p] = "closed"
    /\ lock_file' = None
    /\ procPc' = [procPc EXCEPT ![p] = "exited"]
    /\ UNCHANGED <<flock_owner, lock_file_handle, NotLockVars>>

NextLock ==
    \E p \in Processes :
        \/ AcquireOpen(p)
        \/ AcquireFlock(p)
        \/ ReleaseUnlock(p)
        \/ ReleaseClose(p)
        \/ ReleaseUnlink(p)

SpecLock == Init /\ [][NextLock]_vars

\* ================================================================== Claims
Typed == SelectSeq(typeLog, LAMBDA e : e.res = "typed")

TypedIds == {Typed[k].id : k \in 1..Len(Typed)}

\* C1: texts are injected in strictly increasing chunk-id order: the flush
\* removes chunks 0, 1, 2, ... from pending_chunks with none skipped and none
\* repeated, chunk i is injected only when exactly the chunks below i have
\* been removed, and no chunk is injected twice.
C1_InOrderInjection ==
    /\ \A k \in 1..Len(flushed) : flushed[k] = k - 1
    /\ Len(flushed) = next_chunk_to_type
    /\ \A k \in 1..Len(Typed) : Typed[k].before = Typed[k].id
    /\ \A j, k \in 1..Len(Typed) : j < k => Typed[j].id < Typed[k].id

\* Chunk 1 completed before chunk 0, and both were injected.
C1_Witness ==
    /\ Len(doneOrder) >= 2 /\ doneOrder[1] = 1 /\ doneOrder[2] = 0
    /\ {0, 1} \subseteq TypedIds

\* C2: the k-th chunk that is recorded and dispatched has id k-1, also after
\* failed attempts to create the capture stream.
C2_DispatchedIdsDense ==
    \A k \in 1..Len(dispatched) : dispatched[k] = k - 1

\* C3: type_text is never invoked while is_recording is true; text stored
\* during a recording is injected only after that recording has ended.
C3_NoInjectionWhileRecording ==
    /\ smPc \in {"polled", "typing"} => ~is_recording
    /\ \A k \in 1..Len(typeLog) : ~typeLog[k].rec

\* A chunk whose CHUNK_DONE was stored during a recording has been injected.
C3_Witness ==
    \E c \in queuedWhileRecording : c \in TypedIds

CreateFaults == {"create_error", "create_timeout"}

\* A chunk id the flush will reach has somewhere its text can come from.
Accounted(i) ==
    \/ i \in DOMAIN pending_chunks
    \/ i \in DOMAIN workers
    \/ \E k \in 1..Len(command_queue) :
          command_queue[k].type = "CHUNK_DONE" /\ command_queue[k].id = i
    \/ is_recording /\ current_chunk_id = i

\* C4: a failed stream creation ends with is_recording false and no chunk
\* created: no id is left that the in-order flush would wait for.
C4_FailedCreateLeavesNoChunk ==
    fault \in CreateFaults =>
        /\ ~is_recording
        /\ \A i \in next_chunk_to_type..(next_chunk_to_record - 1) : Accounted(i)

\* C5: when the OS-level injection fails, the flush advances past the chunk:
\* it is removed from pending_chunks and never passed to the injector again.
C5_FailedInjectionAdvances ==
    \A k \in 1..Len(typeLog) :
        typeLog[k].res = "failed" =>
            /\ typeLog[k].id < next_chunk_to_type
            /\ typeLog[k].id \notin DOMAIN pending_chunks

Exceptions == {"create_error", "type_raise"}

\* C6: an exception while handling a command resets is_recording to false
\* and current_chunk_id to None and leaves pending_chunks and
\* next_chunk_to_type as they were.
C6_ExceptionResetsRecordingState ==
    [][fault' \in Exceptions =>
          /\ ~is_recording'
          /\ current_chunk_id' = None
          /\ pending_chunks' = pending_chunks
          /\ next_chunk_to_type' = next_chunk_to_type]_vars

\* The state manager takes a message and may run the flush on it.
FlushStep ==
    /\ smPc = "get"
    /\ command_queue # <<>>
    /\ command_queue' = Tail(command_queue)
    /\ Head(command_queue).type \in {"CHUNK_DONE", "COMMAND_UP"}
    /\ ~is_recording

\* C7: a recording with zero frames causes no recognizer call, completes
\* with empty text, is never passed to the injector, and the flush still
\* advances past it.
C7_ZeroFramesNoRecognizerCall ==
    /\ [](\A c \in DOMAIN chunkLog :
            chunkLog[c].frames = 0 =>
                /\ chunkLog[c].subs = 0
                /\ \A k \in 1..Len(chunkLog[c].posts) : chunkLog[c].posts[k] = ""
                /\ \A k \in 1..Len(typeLog) : typeLog[k].id # c)
    /\ [][FlushStep =>
            ~(/\ next_chunk_to_type' \in DOMAIN pending_chunks'
              /\ pending_chunks'[next_chunk_to_type'] = "")]_vars

\* A zero-frame chunk has completed and been flushed.
C7_Witness ==
    \E c \in DOMAIN chunkLog :
        /\ chunkLog[c].frames = 0
        /\ chunkLog[c].outcome = "empty"
        /\ c < next_chunk_to_type

\* C8: a recognizer timeout completes the chunk with empty text, raises one
\* notification, is followed by no further submission for the chunk, and
\* CHUNK_DONE is still posted.
C8_TimeoutNoRetry ==
    /\ [](\A c \in DOMAIN chunkLog :
            chunkLog[c].timedOut =>
                /\ c \notin DOMAIN workers
                /\ chunkLog[c].outcome = "timeout"
                /\ chunkLog[c].notes = 1
                /\ chunkLog[c].posts = <<"">>)
    /\ [][\A c \in DOMAIN chunkLog :
            chunkLog[c].timedOut => chunkLog'[c].subs = chunkLog[c].subs]_vars

\* A chunk timed out on its second submission and was flushed.
C8_Witness ==
    \E c \in DOMAIN chunkLog :
        /\ chunkLog[c].timedOut
        /\ chunkLog[c].subs = 2
        /\ c < next_chunk_to_type

\* C9: at ten abandoned streams the shutdown notification has fired, the
\* lock is released and quit is requested; below ten the leak path has
\* forced no shutdown.
C9_TenLeaksForceQuit ==
    /\ abandoned_streams >= MAX_ABANDONED_STREAMS =>
          /\ notifications.leak_restart = 1
          /\ ~lockHeld
          /\ quitRequested
    /\ abandoned_streams < MAX_ABANDONED_STREAMS =>
          /\ notifications.leak_restart = 0
          /\ quitRequested => notifications.create_restart > 0
          /\ lockHeld = ~quitRequested

C9_Witness ==
    /\ abandoned_streams = MAX_ABANDONED_STREAMS
    /\ quitRequested

\* C10: close on a handle whose earlier close already timed out does not
\* count the handle as a leak a second time.
C10_CloseIdempotentOnAbandoned ==
    \A s \in DOMAIN leakLog : leakLog[s] <= 1

\* Handling a COMMAND_DOWN, or a COMMAND_UP that ends a recording.
CaptureStep ==
    /\ smPc = "get"
    /\ command_queue # <<>>
    /\ command_queue' = Tail(command_queue)
    /\ \/ Head(command_queue).type = "COMMAND_DOWN"
       \/ Head(command_queue).type = "COMMAND_UP" /\ is_recording

\* C11: the state manager never stays blocked on the audio stream or on the
\* recognizer: handling a command that creates or closes a stream ends back
\* at command_queue.get() whether or not creation or close hangs, and a
\* pending model.transcribe holds only its own thread.
C11_NeverBlocksOnResource ==
    /\ [][CaptureStep => smPc' = "get"]_vars
    /\ [](smPc # "blocked")

\* The close of the first stream hung, and the state manager is back at
\* command_queue.get() after taking a later CHUNK_DONE.
C11_Witness ==
    /\ 0 \in DOMAIN streams
    /\ streams[0] = "hung"
    /\ smPc = "get"
    /\ Len(doneOrder) > 0

\* Handling a COMMAND_UP that ends a recording.
EndCaptureStep ==
    /\ smPc = "get"
    /\ command_queue # <<>>
    /\ command_queue' = Tail(command_queue)
    /\ Head(command_queue).type = "COMMAND_UP"
    /\ is_recording

\* C12: when the close at the end of a recording times out, abandoned_streams
\* grows by exactly one, the handle is discarded and the recorded frames are
\* still handed to a transcription thread; when the close returns in time,
\* abandoned_streams is unchanged.
C12_CloseTimeoutAbandonsAndDispatches ==
    [][EndCaptureStep /\ audio_stream # None =>
          /\ audio_stream' = None
          /\ dispatched' = Append(dispatched, current_chunk_id)
          /\ current_chunk_id \in DOMAIN workers'
          /\ workers'[current_chunk_id].frames = Len(recording_buffer.frames)
          /\ streams'[audio_stream] \in {"closed", "hung"}
          /\ abandoned_streams' =
                abandoned_streams + (IF streams'[audio_stream] = "hung" THEN 1 ELSE 0)]_vars

\* The stream of chunk 0 was abandoned at the end of the recording, and the
\* frame recorded for chunk 0 was dispatched.
C12_Witness ==
    /\ 0 \in DOMAIN streams /\ streams[0] = "hung"
    /\ 0 \in DOMAIN chunkLog /\ chunkLog[0].frames > 0
    /\ abandoned_streams = 1
    /\ audio_stream = None

\* Handling a COMMAND_DOWN while a recording is running.
SecondDownStep ==
    /\ smPc = "get"
    /\ command_queue # <<>>
    /\ command_queue' = Tail(command_queue)
    /\ Head(command_queue).type = "COMMAND_DOWN"
    /\ is_recording

Running == {s \in DOMAIN streams : streams[s] = "running"}

\* C13: a COMMAND_DOWN taken while is_recording is true changes nothing: no
\* chunk id is allocated, current_chunk_id stays, no stream is created, the
\* recording buffer is not reset; so at most one chunk is being recorded, from
\* the one stream the state manager holds.
C13_SecondDownIgnored ==
    /\ [][SecondDownStep =>
            UNCHANGED <<smVars, captureVars, healthVars, creationVars, workers,
                        chunkLog, dispatched, flushLogVars>>]_vars
    /\ [](is_recording => audio_stream \in Running)
    /\ [](is_recording => /\ current_chunk_id = next_chunk_to_record - 1
                          /\ \A k \in 1..Len(dispatched) : dispatched[k] # current_chunk_id)

\* More COMMAND_DOWN messages have been handled than chunk ids allocated, and
\* the recording the extra one met is still running with its frames.
C13_Witness ==
    /\ is_recording
    /\ command_queue = <<>>
    /\ presses > next_chunk_to_record
    /\ ~recording_buffer.none
    /\ Len(recording_buffer.frames) > 0

\* A call of type_text has just returned at the poll loop: the key was held.
DeferralStep ==
    /\ typeLog' # typeLog
    /\ typeLog'[Len(typeLog')].res = "deferred"

Quiet ==
    /\ ~keyDown
    /\ smPc = "get"
    /\ command_queue = <<>>
    /\ workers = EmptyMap
    /\ ~is_recording
    /\ envFaults = 0

\* C15: a deferred text is injected once the key is released: the release,
\* or a CHUNK_DONE that is still to come, makes the state manager run the
\* flush again, so when the key is up and no message is left or to come,
\* every chunk that was deferred has been injected.
C15_DeferredInjectedAfterRelease ==
    Quiet =>
        \A k \in 1..Len(typeLog) :
            typeLog[k].res = "deferred" => typeLog[k].id \in TypedIds

\* C16: typing_in_progress is true exactly while type_text is between setting
\* it and leaving its try block, whatever the way out, and no step outside
\* type_text changes it.
C16_TypingFlagSingleWriter ==
    /\ [](typing_in_progress <=> smPc = "typing")
    /\ [][typing_in_progress' # typing_in_progress =>
            \/ smPc = "polled" /\ smPc' = "typing"
            \/ smPc = "typing" /\ smPc' # "typing"]_vars

\* subprocess.run has just raised inside type_text and the flag is clear, with
\* the key pressed in the meantime.
C16_Witness ==
    /\ fault = "type_raise"
    /\ ~typing_in_progress
    /\ keyDown

\* C17: every physical press of Right Command puts exactly one COMMAND_DOWN
\* on command_queue and every physical release exactly one COMMAND_UP,
\* whatever typing_in_progress is at that moment.
C17_OneCommandPerKeyEvent ==
    [][keyDown' # keyDown =>
          command_queue' =
              Append(command_queue, IF keyDown' THEN DownMsg ELSE UpMsg)]_vars

\* Handling a COMMAND_DOWN that tries to create a stream.
CreateStep ==
    /\ smPc = "get"
    /\ command_queue # <<>>
    /\ command_queue' = Tail(command_queue)
    /\ Head(command_queue).type = "COMMAND_DOWN"
    /\ ~is_recording

\* C18: three stream creations failing in a row force the shutdown
\* (notification, lock released, quit); a creation that succeeds resets the
\* count; fewer than three in a row raise a notification each and force
\* nothing.
C18_ThreeCreationFailuresForceQuit ==
    /\ [](failStreak >= MAX_CREATION_FAILURES =>
            /\ quitRequested
            /\ ~lockHeld
            /\ notifications.create_restart = 1)
    /\ []((failStreak < MAX_CREATION_FAILURES /\ abandoned_streams < MAX_ABANDONED_STREAMS) =>
            /\ ~quitRequested
            /\ lockHeld
            /\ notifications.create_restart = 0)
    /\ [][CreateStep /\ is_recording' => creation_failures' = 0]_vars
    /\ [][(CreateStep /\ ~is_recording' /\ failStreak' < MAX_CREATION_FAILURES) =>
            notifications'.audio_error = notifications.audio_error + 1]_vars

\* A step of a transcription thread.
TranscriptionStep ==
    /\ workers' # workers
    /\ dispatched' = dispatched

\* The CHUNK_DONE messages for chunk c that were ever put on the queue.
DonePosted(c) ==
    Cardinality({k \in 1..Len(command_queue) :
                    command_queue[k].type = "CHUNK_DONE" /\ command_queue[k].id = c})
    + Cardinality({k \in 1..Len(doneOrder) : doneOrder[k] = c})

\* C19: a COMMAND_UP that ends a recording dispatches the recorded frames of
\* that chunk exactly once; the transcription thread of a chunk ends, in
\* every outcome, by putting exactly one CHUNK_DONE with the chunk's id on
\* command_queue; and a transcription thread changes nothing of the state
\* manager except through that message.
C19_OneDispatchOneChunkDone ==
    /\ [][EndCaptureStep =>
            /\ dispatched' = Append(dispatched, current_chunk_id)
            /\ workers' = Put(workers, current_chunk_id,
                              [frames |-> Len(recording_buffer.frames), attempt |-> 0])]_vars
    /\ [](\A j, k \in 1..Len(dispatched) : dispatched[j] = dispatched[k] => j = k)
    /\ [](\A c \in DOMAIN chunkLog :
            /\ DonePosted(c) = IF c \in DOMAIN workers THEN 0 ELSE 1
            /\ Len(chunkLog[c].posts) = DonePosted(c)
            /\ c \notin DOMAIN workers =>
                  chunkLog[c].outcome \in {"empty", "ok", "timeout", "failed", "ioerr"})
    /\ [][TranscriptionStep =>
            /\ UNCHANGED <<smVars, captureVars, healthVars, creationVars,
                           typing_in_progress>>
            /\ \/ command_queue' = command_queue
               \/ \E c \in DOMAIN workers, t \in Texts :
                     command_queue' = Append(command_queue, ChunkDone(c, t))]_vars

\* A chunk whose audio could not be processed has had its one CHUNK_DONE
\* taken by the state manager.
C19_Witness ==
    \E c \in DOMAIN chunkLog :
        /\ chunkLog[c].outcome = "ioerr"
        /\ DonePosted(c) = 1
        /\ \E k \in 1..Len(doneOrder) : doneOrder[k] = c

\* C20: recognizer errors other than a timeout are retried at most
\* MAX_TRANSCRIPTION_RETRIES times, so a chunk is submitted at most three
\* times; the first submission that succeeds ends the loop and its text is
\* the result; after the third failure the result is empty text with one
\* notification; every pass of the loop either ends it or uses up one of the
\* three submissions.
C20_BoundedRetries ==
    /\ [](\A c \in DOMAIN chunkLog :
            /\ chunkLog[c].subs <= MAX_TRANSCRIPTION_RETRIES + 1
            /\ c \in DOMAIN workers =>
                  /\ workers[c].attempt = chunkLog[c].subs
                  /\ workers[c].attempt <= MAX_TRANSCRIPTION_RETRIES
            /\ chunkLog[c].outcome = "failed" =>
                  /\ chunkLog[c].subs = MAX_TRANSCRIPTION_RETRIES + 1
                  /\ chunkLog[c].notes = 1
                  /\ chunkLog[c].posts = <<"">>
            /\ chunkLog[c].outcome = "ok" =>
                  /\ chunkLog[c].subs >= 1
                  /\ chunkLog[c].notes = 0
                  /\ Len(chunkLog[c].posts) = 1)
    /\ [][\A c \in DOMAIN workers :
            \/ c \in DOMAIN workers' /\ workers'[c] = workers[c]
            \/ c \notin DOMAIN workers'
            \/ /\ c \in DOMAIN workers'
               /\ workers'[c].attempt = workers[c].attempt + 1
               /\ chunkLog'[c].subs = chunkLog[c].subs + 1
               /\ chunkLog'[c].outcome = "running"]_vars
    /\ [][\A c \in DOMAIN chunkLog :
            chunkLog[c].outcome # "running" => chunkLog'[c] = chunkLog[c]]_vars

\* A chunk failed twice and succeeded on the third submission.
C20_Witness ==
    \E c \in DOMAIN chunkLog :
        /\ chunkLog[c].outcome = "ok"
        /\ chunkLog[c].subs = MAX_TRANSCRIPTION_RETRIES + 1
        /\ chunkLog[c].posts = <<"hi">>
        /\ ~chunkLog[c].timedOut

\* The poll of type_text that uses up the range.
LastPollStep ==
    /\ smPc = "polling"
    /\ polls' = max_wait_iterations

\* C21: non-empty text is injected only after a poll of the call saw the
\* Right Command key released, and that poll is at most the 20th; when the
\* key is held at all 20 polls, type_text returns the deferred result with
\* no injection and typing_in_progress never set.
C21_InjectAfterReleaseWithinTwentyPolls ==
    /\ [](smPc \in {"polled", "typing"} => polls < 20)
    /\ [](smPc = "polling" => ~typing_in_progress /\ polls < 20)
    /\ [][smPc' = "polled" /\ smPc # "polled" => smPc = "polling" /\ ~keyDown]_vars
    /\ [][smPc' = "typing" /\ smPc # "typing" => smPc = "polled"]_vars
    /\ [][LastPollStep =>
            /\ keyDown
            /\ smPc' = "get"
            /\ ~typing_in_progress'
            /\ pending_chunks' = pending_chunks
            /\ Len(typeLog') = Len(typeLog) + 1
            /\ typeLog'[Len(typeLog')].res = "deferred"]_vars

\* One call was deferred after 20 polls; the next call saw the key held,
\* then released, and injected the text.
C21_Witness ==
    /\ Len(typeLog) = 2
    /\ typeLog[1].res = "deferred"
    /\ typeLog[2].res = "typed"
    /\ polls > 0

\* C22: while typing_in_progress is set the event tap consumes the
\* transitions of Right Command: a press is consumed and puts no
\* COMMAND_DOWN on the queue, a release is consumed and puts no COMMAND_UP
\* on the queue, and right_command_pressed is false after the release.
C22_KeySuppressedWhileTyping ==
    [][keyDown' # keyDown /\ typing_in_progress =>
          /\ tapReturn' = "consumed"
          /\ command_queue' = command_queue
          /\ right_command_pressed' = (keyDown' /\ right_command_pressed)]_vars

\* C23: a capture stream produced by a creation that timed out is closed by
\* close_stream_with_timeout whenever its StreamCreate thread finishes: the
\* only stream ever open and running is the one the state manager records
\* from.
C23_OrphanStreamClosed ==
    \A s \in DOMAIN streams :
        streams[s] = "running" => is_recording /\ audio_stream = s

\* A frame is appended to the list recording_buffer refers to.
AppendStep ==
    /\ ~recording_buffer'.none
    /\ Len(recording_buffer'.frames) = Len(recording_buffer.frames) + 1

\* The audio handed to do_transcription stays as it was grabbed.
HandedOverUnchanged ==
    \A c \in DOMAIN recorded_audio :
        recorded_audio'[c].frames = recorded_audio[c].frames

\* C24 as stated: in every interleaving of audio_callback with the steps of
\* COMMAND_UP no callback appends to audio that was grabbed and handed to
\* do_transcription, and a callback appends only while audio_capture_enabled
\* is set and recording_buffer is not None.
C24_AppendOnlyWhileCaptureEnabled ==
    /\ [][HandedOverUnchanged]_vars
    /\ [][AppendStep => audio_capture_enabled /\ ~recording_buffer.none]_vars

\* C24, amended: no callback appends to audio that was grabbed and handed to
\* do_transcription; a callback appends only if it found
\* audio_capture_enabled set at its check and recording_buffer is not None
\* when it holds the lock, and from the grab until the next COMMAND_DOWN
\* there is no buffer to append to.
C24_HandedOverAudioNeverMutated ==
    /\ [][HandedOverUnchanged]_vars
    /\ [][inFlight' \ inFlight # {} => audio_capture_enabled]_vars
    /\ [][AppendStep =>
            /\ ~recording_buffer.none
            /\ \E s \in inFlight : inFlight' = inFlight \ {s}]_vars
    /\ [](smPc = "snapshotted" => recording_buffer.none)

\* A chunk was handed over with a frame in it while a callback that had
\* passed its check was still on its way to the lock.
C24_Witness ==
    /\ inFlight # {}
    /\ recording_buffer.none
    /\ \E k \in 1..Len(dispatched) :
          Len(recorded_audio[dispatched[k]].frames) > 0

\* Calls that still hold a worker although the thread that submitted them
\* has stopped waiting: their future.result timed out.
Stuck == {c \in pool_running : ~(c.cid \in DOMAIN waiting /\ waiting[c.cid] = c)}

\* The do_transcription thread of chunk cid submits a call.
SubmitStep(cid) ==
    /\ cid \notin DOMAIN waiting
    /\ cid \in DOMAIN waiting'

\* C25: with the pool of two workers a call that never returns does not
\* hold up the next submission: a call submitted while one stuck call is
\* all the pool is executing starts at once (in general a call starts at
\* once exactly when fewer than two calls are being executed), and when it
\* returns its thread leaves future.result with the result.
C25_StuckCallDoesNotBlockNextSubmission ==
    /\ [][\A cid \in DOMAIN workers :
            SubmitStep(cid) /\ Cardinality(Stuck) = 1 /\ pool_running = Stuck =>
                waiting'[cid] \in pool_running']_vars
    /\ [][\A cid \in DOMAIN workers :
            SubmitStep(cid) =>
                (waiting'[cid] \in pool_running' <=> Cardinality(pool_running) < 2)]_vars
    /\ [][\A c \in pool_running \ Stuck :
            c \notin pool_running' =>
                /\ c.cid \notin DOMAIN waiting'
                /\ \/ c.cid \notin DOMAIN workers'
                   \/ workers'[c.cid].attempt = c.attempt + 1]_vars
    /\ [](pool_queue # <<>> => Cardinality(pool_running) = 2)

\* The call of one chunk timed out and still holds its worker; a later
\* chunk was transcribed meanwhile and its text posted.
C25_Witness ==
    \E a \in Stuck : \E b \in DOMAIN chunkLog :
        /\ b > a.cid
        /\ chunkLog[a.cid].outcome = "timeout"
        /\ chunkLog[b].outcome = "ok"
        /\ chunkLog[b].posts = <<"hi">>

\* C26 as stated: abandoned_streams and creation_failures never decrease.
C26_CountersMonotone ==
    [][/\ abandoned_streams' >= abandoned_streams
       /\ creation_failures' >= creation_failures]_vars

\* A COMMAND_DOWN whose stream was created and started in time.
CreationSucceeded ==
    /\ ~is_recording
    /\ is_recording'
    /\ audio_stream' # None

\* C26, amended: abandoned_streams never decreases; creation_failures goes up
\* by one at a time and goes down only when a stream creation succeeds,
\* which sets it to 0.
C26_LeakCounterMonotoneFailuresReset ==
    [][/\ abandoned_streams' \in {abandoned_streams, abandoned_streams + 1}
       /\ creation_failures' \in {creation_failures, creation_failures + 1, 0}
       /\ creation_failures' < creation_failures => CreationSucceeded
       /\ CreationSucceeded => creation_failures' = 0]_vars

\* Streams have been abandoned and creations have timed out, and a creation
\* that succeeded afterwards has reset creation_failures.
C26_Witness ==
    /\ abandoned_streams > 0
    /\ notifications.audio_error > 1
    /\ creation_failures = 0
    /\ is_recording

\* C27: the deadline of a recording is max(TRANSCRIPTION_TIMEOUT, 2 *
\* duration_seconds): at least 120 s and at least twice the duration.
\* (timeout_seconds * SAMPLE_RATE and 2 * audio_len are the two sides in
\* samples.)
C27_DeadlineIsMaxOfFloorAndTwiceDuration ==
    timeout_seconds # None =>
        /\ timeout_seconds >= 120
        /\ timeout_seconds * SAMPLE_RATE >= 2 * audio_len
        /\ timeout_seconds * SAMPLE_RATE = Max(120 * SAMPLE_RATE, 2 * audio_len)

Outcome(c) == chunkLog[c].outcome

\* C28: a recording longer than 30 s appends one entry with its transcript
\* and duration to the transcript log whatever the outcome (text, empty
\* text, timeout, retries exhausted); a recording of 30 s or less appends
\* nothing.
C28_LongRecordingsAlwaysLogged ==
    \A c \in DOMAIN chunkLog :
        Outcome(c) \in {"ok", "timeout", "failed"} =>
            IF audio_len > 30 * SAMPLE_RATE
            THEN /\ Len(transcript_log) = 1
                 /\ transcript_log[1].len = audio_len
                 /\ transcript_log[1].text = chunkLog[c].posts[1]
            ELSE transcript_log = <<>>

\* Nothing is left to happen: the key is up, the state manager waits on an
\* empty queue, no transcription is running, and every call of type_text
\* so far has typed its text.
Settled ==
    /\ ~keyDown
    /\ smPc = "get"
    /\ command_queue = <<>>
    /\ workers = EmptyMap
    /\ ~is_recording
    /\ \A k \in 1..Len(typeLog) : typeLog[k].res = "typed"

\* C29: every chunk that was recorded and dispatched is flushed in the end,
\* also after failed stream creations: once every transcription has posted
\* its CHUNK_DONE, the key is up and every message has been handled, each
\* dispatched chunk has left pending_chunks and next_chunk_to_type is past
\* it.
C29_DispatchedChunksFlushed ==
    Settled =>
        \A k \in 1..Len(dispatched) :
            /\ dispatched[k] < next_chunk_to_type
            /\ dispatched[k] \notin DOMAIN pending_chunks

\* C30: the state manager does not stay recording after the key has been
\* released: the release that matches a queued COMMAND_DOWN queues
\* COMMAND_UP whatever typing_in_progress is, so with the key up and every
\* message handled is_recording is false.
C30_NoCaptureAfterRelease ==
    /\ [][keyDown /\ ~keyDown' /\ right_command_pressed =>
            command_queue' = Append(command_queue, UpMsg)]_vars
    /\ [](~keyDown /\ smPc = "get" /\ command_queue = <<>> => ~is_recording)

\* Streams whose audio_callback would append to recording_buffer now.
Appenders ==
    IF audio_capture_enabled /\ ~recording_buffer.none THEN Running ELSE {}

\* C31: every frame in the recording buffer, and so every frame dispatched
\* for a chunk, was appended by a callback of the stream created for that
\* chunk, and at any instant at most that one stream can append: streams
\* abandoned by a close timeout or orphaned by a creation timeout never
\* append into a later chunk's buffer.
C31_OnlyOwnStreamAppends ==
    /\ \A i \in 1..Len(recording_buffer.frames) :
           recording_buffer.frames[i] = audio_stream
    /\ Appenders \subseteq {audio_stream}
    /\ Cardinality(Appenders) <= 1

\* C32: the sequencing bounds of the state manager.  The next id to type
\* never passes the next id to record; every stored chunk has an id that
\* was allocated and not yet typed; while recording, the chunk in progress
\* has the last id allocated and no text stored under it.
C32_SequencingBounds ==
    /\ 0 <= next_chunk_to_type
    /\ next_chunk_to_type <= next_chunk_to_record
    /\ \A k \in DOMAIN pending_chunks :
           next_chunk_to_type <= k /\ k < next_chunk_to_record
    /\ is_recording =>
           /\ current_chunk_id = next_chunk_to_record - 1
           /\ current_chunk_id \notin DOMAIN pending_chunks

\* A second chunk is being recorded while the text of the first is stored.
C32_Witness ==
    /\ is_recording
    /\ current_chunk_id = 1
    /\ 0 \in DOMAIN pending_chunks
    /\ next_chunk_to_type = 0
    /\ next_chunk_to_record = 2

\* C33: the resource warning is raised exactly once in the life of the
\* process, by the close timeout that takes abandoned_streams from 4 to 5:
\* none has been raised below 5, one has been raised from 5 on, and no
\* other step raises one.
C33_LeakWarningExactlyOnceAtFive ==
    /\ [](notifications.leak_warning =
              IF abandoned_streams >= LEAK_WARNING_COUNT THEN 1 ELSE 0)
    /\ [][notifications'.leak_warning # notifications.leak_warning =>
              /\ abandoned_streams = LEAK_WARNING_COUNT - 1
              /\ abandoned_streams' = LEAK_WARNING_COUNT
              /\ notifications'.leak_warning = notifications.leak_warning + 1]_vars

\* Leaks went on after the warning.
C33_Witness ==
    /\ abandoned_streams = LEAK_WARNING_COUNT + 2
    /\ notifications.leak_warning = 1

\* Processes that acquired the lock and are running the application.
Believers == {p \in Processes : procPc[p] = "running"}

\* C34: whatever the interleaving of the processes' acquire and release
\* calls, at most one process at a time has acquired the single-instance
\* lock and is running the application.
C34_AtMostOneInstanceRuns ==
    Cardinality(Believers) <= 1
====
